---- MODULE Spec2Model ----
(***************************************************************************)
(* A model of sphinxify.py: the doc-comment parser Doc.from_comment, the   *)
(* Doc object (get_param, remove_param) and its renderer Doc.__str__.      *)
(*                                                                         *)
(* Text is modelled at character level: a Python str is a sequence of      *)
(* one-character strings, a list of str a sequence of such sequences.      *)
(***************************************************************************)
EXTENDS Integers, Sequences, FiniteSets, TLC

\* Length of the longest comment (number of physical lines) that is explored.
MaxLines == 3

(***************************************************************************)
(* Character classes and Python str methods.                               *)
(***************************************************************************)

\* The characters str.strip() removes (ASCII whitespace).
Whitespace == {" ", "\t", "\n", "\r"}

\* The characters the regex class \w matches (ASCII part).
WordChars ==
    {"a","b","c","d","e","f","g","h","i","j","k","l","m","n","o","p","q","r",
     "s","t","u","v","w","x","y","z",
     "A","B","C","D","E","F","G","H","I","J","K","L","M","N","O","P","Q","R",
     "S","T","U","V","W","X","Y","Z",
     "0","1","2","3","4","5","6","7","8","9","_"}

\* The backquote character, which a TLA+ string literal cannot hold.
Backtick == "BACKQUOTE"

\* s[n:]
Drop(s, n) == SubSeq(s, n + 1, Len(s))

\* s.startswith(p)
StartsWith(s, p) == Len(s) >= Len(p) /\ SubSeq(s, 1, Len(p)) = p

\* s.lstrip()
RECURSIVE LStrip(_)
LStrip(s) ==
    IF s = <<>> THEN s
    ELSE IF s[1] \in Whitespace THEN LStrip(Tail(s)) ELSE s

\* s.rstrip()
RECURSIVE RStrip(_)
RStrip(s) ==
    IF s = <<>> THEN s
    ELSE IF s[Len(s)] \in Whitespace THEN RStrip(SubSeq(s, 1, Len(s) - 1)) ELSE s

\* s.strip()
Strip(s) == RStrip(LStrip(s))

\* s.replace(old, new), old not empty: leftmost non-overlapping occurrences.
RECURSIVE Replace(_, _, _)
Replace(s, old, new) ==
    IF s = <<>> THEN s
    ELSE IF StartsWith(s, old) THEN new \o Replace(Drop(s, Len(old)), old, new)
    ELSE <<s[1]>> \o Replace(Tail(s), old, new)

\* s.count(sub), sub not empty: number of non-overlapping occurrences.
RECURSIVE Count(_, _)
Count(s, sub) ==
    IF s = <<>> THEN 0
    ELSE IF StartsWith(s, sub) THEN 1 + Count(Drop(s, Len(sub)), sub)
    ELSE Count(Tail(s), sub)

\* sep.join(lines)
RECURSIVE Join(_, _)
Join(lines, sep) ==
    IF lines = <<>> THEN <<>>
    ELSE IF Len(lines) = 1 THEN lines[1]
    ELSE lines[1] \o sep \o Join(Tail(lines), sep)

\* s.split(newline): always at least one piece.
RECURSIVE SplitNL(_)
SplitNL(s) ==
    IF \A i \in 1..Len(s) : s[i] /= "\n" THEN <<s>>
    ELSE LET k == CHOOSE i \in 1..Len(s) :
                    s[i] = "\n" /\ \A j \in 1..(i - 1) : s[j] /= "\n"
         IN  <<SubSeq(s, 1, k - 1)>> \o SplitNL(Drop(s, k))

\* s.split(): the maximal runs of non-whitespace characters.
RECURSIVE SplitWords(_)
SplitWords(s) ==
    LET t == LStrip(s)
    IN  IF t = <<>> THEN <<>>
        ELSE LET stops == {i \in 1..Len(t) : t[i] \in Whitespace}
                 k == IF stops = {} THEN Len(t) + 1
                      ELSE CHOOSE i \in stops : \A j \in stops : i <= j
             IN  <<SubSeq(t, 1, k - 1)>> \o SplitWords(Drop(t, k - 1))

\* " " * n (the empty string when n <= 0)
Spaces(n) == [i \in 1..n |-> " "]

\* The longest prefix of s made of word characters (\w*), as a length.
RECURSIVE WordRun(_)
WordRun(s) ==
    IF s = <<>> THEN 0
    ELSE IF s[1] \in WordChars THEN 1 + WordRun(Tail(s)) ELSE 0

\* The longest prefix of s made of non-word characters (\W*), as a length.
RECURSIVE NonWordRun(_)
NonWordRun(s) ==
    IF s = <<>> THEN 0
    ELSE IF s[1] \notin WordChars THEN 1 + NonWordRun(Tail(s)) ELSE 0

(***************************************************************************)
(* Doc.from_comment: the body of the loop over the comment's lines.        *)
(*                                                                         *)
(* The parser state st is a record of the local variables of from_comment: *)
(*   in_pre, in_block, begin_block : the three flags                       *)
(*   desc_lines, returns           : lists of lines                        *)
(*   deprecated                    : None, or a list of lines              *)
(*   params                        : the list of Param objects             *)
(*   current_lines                 : a reference to one of these lists     *)
(* A list object is referred to by [kind, id]; the lists made during the   *)
(* parse (a Param's lines, a deprecation list) get the number of the       *)
(* physical line that created them as id.  Each element of a list is       *)
(* [src, text]: the text, and the number of the physical line it came from *)
(* (src is bookkeeping of the model, the code stores the text alone).      *)
(***************************************************************************)

DescRef == [kind |-> "desc", id |-> 0]
ReturnsRef == [kind |-> "returns", id |-> 0]
DeprecatedRef(n) == [kind |-> "deprecated", id |-> n]
ParamRef(n) == [kind |-> "param", id |-> n]

\* Optional[List[str]]: None, or the list object with identity id.
NoneList == [none |-> TRUE, id |-> 0, lines |-> <<>>]
FreshList(n) == [none |-> FALSE, id |-> n, lines |-> <<>>]

Entry(n, text) == [src |-> n, text |-> text]

\* The texts of a list of lines.
Texts(lines) == [k \in 1..Len(lines) |-> lines[k].text]

\* Lines 78-93 with deprecated starting as an empty list in place of None.
StartState_EmptyDeprecated ==
    [in_pre |-> FALSE, in_block |-> FALSE, begin_block |-> FALSE,
     current_lines |-> DescRef, desc_lines |-> <<>>, params |-> <<>>,
     returns |-> <<>>, deprecated |-> FreshList(0)]

\* The state at the start of the loop (lines 78-93).
StartState ==
    [in_pre |-> FALSE, in_block |-> FALSE, begin_block |-> FALSE,
     current_lines |-> DescRef, desc_lines |-> <<>>, params |-> <<>>,
     returns |-> <<>>, deprecated |-> NoneList]

\* Lines 95-108: strip the line and remove one layer of comment decoration.
StripDecoration(raw) ==
    LET line == Strip(raw)
    IN  IF StartsWith(line, <<"/","/","!","<"," ">>) THEN Drop(line, 5)
        ELSE IF StartsWith(line, <<"/","/","/"," ">>) THEN Drop(line, 4)
        ELSE LET l == Replace(Replace(line, <<"/","*">>, <<>>), <<"*","/">>, <<>>)
             IN  IF l = <<"*">> THEN <<>>
                 ELSE IF StartsWith(l, <<"*"," ">>) THEN Drop(l, 2)
                 ELSE IF StartsWith(l, <<"*","<"," ">>) THEN Drop(l, 3)
                 ELSE l

\* current_lines.append(e) for each e of entries: the list current_lines
\* refers to grows, wherever it is held.
AppendCurrent(st, entries) ==
    LET cur == st.current_lines
    IN  CASE cur.kind = "desc" -> [st EXCEPT !.desc_lines = @ \o entries]
          [] cur.kind = "returns" -> [st EXCEPT !.returns = @ \o entries]
          [] cur.kind = "deprecated" ->
                IF ~st.deprecated.none /\ st.deprecated.id = cur.id
                THEN [st EXCEPT !.deprecated.lines = @ \o entries]
                ELSE st
          [] cur.kind = "param" ->
                [st EXCEPT !.params =
                    [k \in 1..Len(@) |->
                        IF @[k].id = cur.id
                        THEN [@[k] EXCEPT !.lines = @ \o entries]
                        ELSE @[k]]]

OpenMarkers == {<<"<","p","r","e",">">>, <<"@","c","o","d","e">>}
EndMarkers == {<<"<","/","p","r","e",">">>, <<"@","e","n","d","c","o","d","e">>}

\* The chain of lines 110-128 with the blank-line reset (line 127) tested
\* before the verbatim test (line 119).
VerbatimChain_ResetBeforeVerbatim(st, line, n) ==
    IF line \in OpenMarkers
    THEN [continue |-> TRUE, line |-> line,
          st |-> AppendCurrent([st EXCEPT !.in_pre = TRUE],
                               <<Entry(n, <<":",":","\n">>)>>)]
    ELSE IF line \in EndMarkers
    THEN [continue |-> FALSE, line |-> <<>>, st |-> [st EXCEPT !.in_pre = FALSE]]
    ELSE IF st.in_block /\ line = <<>>
    THEN [continue |-> FALSE, line |-> line, st |-> [st EXCEPT !.in_block = FALSE]]
    ELSE IF line = <<>> /\ st.current_lines /= ReturnsRef
    THEN [continue |-> FALSE, line |-> line,
          st |-> [st EXCEPT !.current_lines = DescRef]]
    ELSE IF st.in_pre
    THEN [continue |-> TRUE, line |-> line,
          st |-> AppendCurrent(st, <<Entry(n, <<" "," ">> \o line)>>)]
    ELSE IF StartsWith(line, <<"@","c","o","d","e"," ">>)
    THEN [continue |-> TRUE, line |-> line,
          st |-> AppendCurrent([st EXCEPT !.in_pre = TRUE],
                               <<Entry(n, <<":",":","\n">>),
                                 Entry(n, <<" "," ">> \o Drop(line, 6))>>)]
    ELSE [continue |-> FALSE, line |-> line, st |-> st]

\* The chain of lines 110-128 with the blank-line reset (line 127) made for
\* every destination, the return list too.
VerbatimChain_ResetAtReturns(st, line, n) ==
    IF line \in OpenMarkers
    THEN [continue |-> TRUE, line |-> line,
          st |-> AppendCurrent([st EXCEPT !.in_pre = TRUE],
                               <<Entry(n, <<":",":","\n">>)>>)]
    ELSE IF line \in EndMarkers
    THEN [continue |-> FALSE, line |-> <<>>, st |-> [st EXCEPT !.in_pre = FALSE]]
    ELSE IF st.in_block /\ line = <<>>
    THEN [continue |-> FALSE, line |-> line, st |-> [st EXCEPT !.in_block = FALSE]]
    ELSE IF st.in_pre
    THEN [continue |-> TRUE, line |-> line,
          st |-> AppendCurrent(st, <<Entry(n, <<" "," ">> \o line)>>)]
    ELSE IF StartsWith(line, <<"@","c","o","d","e"," ">>)
    THEN [continue |-> TRUE, line |-> line,
          st |-> AppendCurrent([st EXCEPT !.in_pre = TRUE],
                               <<Entry(n, <<":",":","\n">>),
                                 Entry(n, <<" "," ">> \o Drop(line, 6))>>)]
    ELSE IF line = <<>>
    THEN [continue |-> FALSE, line |-> line,
          st |-> [st EXCEPT !.current_lines = DescRef]]
    ELSE [continue |-> FALSE, line |-> line, st |-> st]

\* Lines 110-128: the if/elif chain on the decoration-stripped line.  The
\* result says whether the iteration ends here (continue), and gives the
\* state and the line the rest of the body goes on with.
VerbatimChain(st, line, n) ==
    IF line \in OpenMarkers
    THEN [continue |-> TRUE, line |-> line,
          st |-> AppendCurrent([st EXCEPT !.in_pre = TRUE],
                               <<Entry(n, <<":",":","\n">>)>>)]
    ELSE IF line \in EndMarkers
    THEN [continue |-> FALSE, line |-> <<>>, st |-> [st EXCEPT !.in_pre = FALSE]]
    ELSE IF st.in_block /\ line = <<>>
    THEN [continue |-> FALSE, line |-> line, st |-> [st EXCEPT !.in_block = FALSE]]
    ELSE IF st.in_pre
    THEN [continue |-> TRUE, line |-> line,
          st |-> AppendCurrent(st, <<Entry(n, <<" "," ">> \o line)>>)]
    ELSE IF StartsWith(line, <<"@","c","o","d","e"," ">>)
    THEN [continue |-> TRUE, line |-> line,
          st |-> AppendCurrent([st EXCEPT !.in_pre = TRUE],
                               <<Entry(n, <<":",":","\n">>),
                                 Entry(n, <<" "," ">> \o Drop(line, 6))>>)]
    ELSE IF line = <<>> /\ st.current_lines /= ReturnsRef
    THEN [continue |-> FALSE, line |-> line,
          st |-> [st EXCEPT !.current_lines = DescRef]]
    ELSE [continue |-> FALSE, line |-> line, st |-> st]

\* Line 132: the block-identity tags \fn and \class.
IsBlockIdentity(line) ==
    \/ StartsWith(line, <<"\\","f","n"," ">>)
    \/ StartsWith(line, <<"\\","c","l","a","s","s"," ">>)

\* Line 149: re.search(r"^[\\@]param\W+(\w+)", line) finds a match.
ParamMatches(line) ==
    /\ line /= <<>>
    /\ line[1] \in {"\\", "@"}
    /\ StartsWith(Tail(line), <<"p","a","r","a","m">>)
    /\ LET rest == Drop(line, 6)
       IN  /\ NonWordRun(rest) >= 1
           /\ WordRun(Drop(rest, NonWordRun(rest))) >= 1

\* Line 152: p.group(1), the parameter name.
ParamName(line) ==
    LET rest == Drop(line, 6)
        from == Drop(rest, NonWordRun(rest))
    IN  SubSeq(from, 1, WordRun(from))

\* Line 151: re.sub(r"^[\\@]param\W+\w+(\W+)?", "", line) on a matching line.
ParamStripped(line) ==
    LET rest == Drop(line, 6)
        from == Drop(rest, NonWordRun(rest))
        after == Drop(from, WordRun(from))
    IN  Drop(after, NonWordRun(after))

\* Line 156: re.search(r"^[\\@]returns?\W*", line) finds a match.
ReturnMatches(line) ==
    /\ line /= <<>>
    /\ line[1] \in {"\\", "@"}
    /\ StartsWith(Tail(line), <<"r","e","t","u","r","n">>)

\* Line 158: re.sub(r"^[\\@]returns?\W*", "", line) on a matching line.
ReturnStripped(line) ==
    LET rest == Drop(line, 7)
        after == IF StartsWith(rest, <<"s">>) THEN Tail(rest) ELSE rest
    IN  Drop(after, NonWordRun(after))

\* Lines 140-141 without line 141: the new deprecation list is not made the
\* current list.
DeprecatedTag_NotMadeCurrent(st, n) ==
    [st EXCEPT !.deprecated = FreshList(n)]

\* Lines 140-141: a deprecation tag makes a new, empty deprecation list and
\* makes it the current list.
DeprecatedTag(st, n) ==
    [st EXCEPT !.deprecated = FreshList(n), !.current_lines = DeprecatedRef(n)]

\* Lines 135-159: the tag a line starts with, its effect on the state, and
\* the line with the tag removed.
TagChain(st, line, n) ==
    IF \/ StartsWith(line, <<"@","b","r","i","e","f"," ">>)
       \/ StartsWith(line, <<"\\","b","r","i","e","f"," ">>)
    THEN [st |-> st, line |-> Drop(line, 7)]
    ELSE IF StartsWith(line, <<"\\","e","n","u","m"," ">>)
    THEN [st |-> st, line |-> Join(Drop(SplitWords(line), 2), <<" ">>)]
    ELSE IF StartsWith(line, <<"@","d","e","p","r","e","c","a","t","e","d"," ">>)
    THEN [st |-> DeprecatedTag(st, n), line |-> Drop(line, 12)]
    ELSE IF StartsWith(line, <<"@","n","o","t","e"," ">>)
    THEN [st |-> [st EXCEPT !.begin_block = TRUE],
          line |-> <<".","."," ","n","o","t","e",":",":"," ">> \o Drop(line, 6)]
    ELSE LET l == Replace(Replace(line, <<"<","p",">">>, <<>>),
                          <<"<","b","r",">">>, <<"\n">>)
         IN  IF ParamMatches(l)
             THEN [st |-> [st EXCEPT
                            !.current_lines = ParamRef(n),
                            !.params = Append(@, [id |-> n, name |-> ParamName(l),
                                                  lines |-> <<>>])],
                   line |-> ParamStripped(l)]
             ELSE IF ReturnMatches(l)
             THEN [st |-> [st EXCEPT !.current_lines = ReturnsRef],
                   line |-> ReturnStripped(l)]
             ELSE [st |-> st, line |-> l]

\* Lines 175-185, for one (tag, inline, role) of the loop: balanced tags
\* become the inline marker, unbalanced ones a role.
RewritePair(line, tag, inline, role) ==
    LET open == <<"<">> \o tag \o <<">">>
        close == <<"<","/">> \o tag \o <<">">>
    IN  IF Count(line, open) = Count(line, close)
        THEN Replace(Replace(line, open, inline), close, inline)
        ELSE Replace(Replace(line, open, <<":">> \o role \o <<":",Backtick>>),
                     close, <<Backtick>>)

\* Line 190: the regex \B_\b matches an underscore after a word character and
\* before a non-word character or the end of the line; it gets a backslash.
EscapeUnderscore(line) ==
    LET esc(i) == /\ line[i] = "_"
                  /\ i > 1 /\ line[i - 1] \in WordChars
                  /\ (i = Len(line) \/ line[i + 1] \notin WordChars)
        F[i \in 0..Len(line)] ==
            IF i = 0 THEN <<>>
            ELSE F[i - 1] \o (IF esc(i) THEN <<"\\","_">> ELSE <<line[i]>>)
    IN  F[Len(line)]

\* Lines 161-190, the tag rewriter.  The five {@link ...} and {@code ...}
\* substitutions (lines 161-168) each need an opening brace in the line and leave every
\* other line as it is; the comments explored here hold no brace.
Rewrite(line) ==
    LET l1 == Replace(Replace(line, <<"<","u","l",">">>, <<>>),
                      <<"<","/","u","l",">">>, <<>>)
        l2 == Replace(Replace(l1, <<"<","l","i",">">>, <<"-"," ">>),
                      <<"<","/","l","i",">">>, <<>>)
        l3 == IF StartsWith(l2, <<"\\","l","i"," ">>)
              THEN <<"-">> \o Drop(l2, 3) ELSE l2
        l4 == RewritePair(l3, <<"b">>, <<"*","*">>, <<"s","t","r","o","n","g">>)
        l5 == RewritePair(l4, <<"s","t","r","o","n","g">>, <<"*","*">>,
                          <<"s","t","r","o","n","g">>)
        l6 == RewritePair(l5, <<"i">>, <<"*">>,
                          <<"e","m","p","h","a","s","i","s">>)
        l7 == RewritePair(l6, <<"e","m">>, <<"*">>,
                          <<"e","m","p","h","a","s","i","s">>)
        l8 == Replace(Replace(l7, <<"<","s","u","b",">">>, <<":","s","u","b",":",Backtick>>),
                      <<"<","/","s","u","b",">">>, <<Backtick>>)
        l9 == Replace(Replace(l8, <<"<","s","u","p",">">>, <<":","s","u","p",":",Backtick>>),
                      <<"<","/","s","u","p",">">>, <<Backtick>>)
    IN  EscapeUnderscore(l9)

\* Lines 192-199: the admonition indent, the one-line lookahead of the two
\* admonition flags, and the append to the current list.
IndentAndAppend(st, line, n) ==
    LET l == Strip(line)
    IN  IF st.in_block
        THEN AppendCurrent(st, <<Entry(n, <<" "," "," ">> \o l)>>)
        ELSE IF st.begin_block
        THEN AppendCurrent([st EXCEPT !.in_block = TRUE, !.begin_block = FALSE],
                           <<Entry(n, l)>>)
        ELSE AppendCurrent(st, <<Entry(n, l)>>)

\* Lines 94-199: one iteration of the loop, on physical line number n.
LoopBody(st, raw, n) ==
    LET c == VerbatimChain(st, StripDecoration(raw), n)
        line == LStrip(c.line)
    IN  IF c.continue THEN c.st
        ELSE IF IsBlockIdentity(line) THEN c.st
        ELSE LET t == TagChain(c.st, line, n)
             IN  IndentAndAppend(t.st, Rewrite(t.line), n)

\* Line 202 left out: the text as it is.
CollapseBlank_Keep(text) == text

\* Line 202: every run of two or more newlines becomes two newlines.
RECURSIVE CollapseBlank(_)
CollapseBlank(text) ==
    IF text = <<>> THEN text
    ELSE IF StartsWith(text, <<"\n","\n">>)
    THEN LET k == CHOOSE i \in 2..Len(text) :
                    /\ \A j \in 1..i : text[j] = "\n"
                    /\ (i = Len(text) \/ text[i + 1] /= "\n")
         IN  <<"\n","\n">> \o CollapseBlank(Drop(text, k))
    ELSE <<text[1]>> \o CollapseBlank(Tail(text))

\* Lines 201-202: the description text made of desc_lines.
DescText(desclines) == CollapseBlank(Strip(Join(Texts(desclines), <<"\n">>)))

\* Line 40: trim_lines.
trim_lines(lines) == SplitNL(Strip(Join(lines, <<"\n">>)))

(***************************************************************************)
(* The Doc object: __post_init__, get_param, remove_param, __str__.        *)
(***************************************************************************)

\* d[name] = ref on an OrderedDict d, a sequence of [name, ref] in the order
\* the keys were first set: a key that is there keeps its place.
DictSet(d, name, ref) ==
    IF \E k \in 1..Len(d) : d[k].name = name
    THEN [k \in 1..Len(d) |-> IF d[k].name = name THEN [d[k] EXCEPT !.ref = ref]
                                                  ELSE d[k]]
    ELSE Append(d, [name |-> name, ref |-> ref])

\* Line 65: collections.OrderedDict((p.name, p) for p in self.params); a
\* Param object is referred to by its id.
RECURSIVE OrderedDict(_)
OrderedDict(ps) ==
    IF ps = <<>> THEN <<>>
    ELSE LET last == ps[Len(ps)]
         IN  DictSet(OrderedDict(SubSeq(ps, 1, Len(ps) - 1)), last.name, last.id)

\* name in d
HasKey(d, name) == \E k \in 1..Len(d) : d[k].name = name

\* d[name], for a key that is there
Lookup(d, name) == d[CHOOSE k \in 1..Len(d) : d[k].name = name].ref

\* del d[name]
RECURSIVE DictDel(_, _)
DictDel(d, name) ==
    IF d = <<>> THEN d
    ELSE IF d[1].name = name THEN DictDel(Tail(d), name)
    ELSE <<d[1]>> \o DictDel(Tail(d), name)

\* Lines 211-213 deleting the element at the head of the list, whichever
\* Param that is.
RemoveLoop_Head(ps, i, to_delete) ==
    IF ps = <<>> THEN ps ELSE Tail(ps)

\* Lines 211-213: the loop of remove_param from index i on (i counts from 1
\* here); del self.params[i] during the enumeration shifts the rest down, and
\* the enumeration goes on at the next index.
RECURSIVE RemoveLoop(_, _, _)
RemoveLoop(ps, i, to_delete) ==
    IF i > Len(ps) THEN ps
    ELSE IF ps[i].id = to_delete
    THEN RemoveLoop(SubSeq(ps, 1, i - 1) \o Drop(ps, i), i + 1, to_delete)
    ELSE RemoveLoop(ps, i + 1, to_delete)

\* Line 230 with the first parameter's name in place of the longest.
PIndent_FirstName(ps) ==
    Len(ps[1].name) + Len(<<":","p","a","r","a","m"," ",":"," ">>)

\* Line 230: the column the parameter descriptions are aligned on.
PIndent(ps) ==
    LET lens == {Len(ps[k].name) : k \in 1..Len(ps)}
    IN  (CHOOSE m \in lens : \A l \in lens : l <= m)
        + Len(<<":","p","a","r","a","m"," ",":"," ">>)

\* Lines 235-239: the field of one parameter.
ParamField(param, pindent) ==
    LET pname == <<":","p","a","r","a","m"," ">> \o param.name \o <<":"," ">>
        pp == trim_lines(Texts(param.lines))
    IN  <<pname \o Spaces(pindent - Len(pname)) \o pp[1]>>
        \o [k \in 1..(Len(pp) - 1) |-> Spaces(pindent) \o pp[k + 1]]

\* Lines 234-239 with the parameters taken last to first.
RECURSIVE ParamFields_Reversed(_, _)
ParamFields_Reversed(ps, pindent) ==
    IF ps = <<>> THEN <<>>
    ELSE ParamField(ps[Len(ps)], pindent)
         \o ParamFields_Reversed(SubSeq(ps, 1, Len(ps) - 1), pindent)

\* Lines 234-239: the fields of the parameters, in the order of self.params.
RECURSIVE ParamFields(_, _)
ParamFields(ps, pindent) ==
    IF ps = <<>> THEN <<>>
    ELSE ParamField(ps[1], pindent) \o ParamFields(Tail(ps), pindent)

\* Lines 219-247 with the returns field put before the parameter fields.
ToAppend_ReturnsFirst(ps, rets, dep) ==
    LET d == IF dep.none THEN <<>>
             ELSE LET dl == Texts(dep.lines)
                  IN  <<<<":","d","e","p","r","e","c","a","t","e","d",":"," ">>
                        \o dl[1]>>
                      \o [k \in 1..(Len(dl) - 1) |-> Spaces(13) \o dl[k + 1]]
                      \o << <<>> >>
        p == IF ps = <<>> THEN <<>>
             ELSE ParamFields(ps, PIndent(ps))
        r == IF rets = <<>> THEN <<>>
             ELSE LET rl == trim_lines(Texts(rets))
                  IN  <<<<":","r","e","t","u","r","n","s",":"," ">> \o rl[1]>>
                      \o [k \in 1..(Len(rl) - 1) |-> Spaces(10) \o rl[k + 1]]
                      \o << <<>> >>
    IN  << <<"\n">> >> \o d \o r \o p

\* Lines 219-247: the list to_append that __str__ builds.
ToAppend(ps, rets, dep) ==
    LET d == IF dep.none THEN <<>>
             ELSE LET dl == Texts(dep.lines)
                  IN  <<<<":","d","e","p","r","e","c","a","t","e","d",":"," ">>
                        \o dl[1]>>
                      \o [k \in 1..(Len(dl) - 1) |-> Spaces(13) \o dl[k + 1]]
                      \o << <<>> >>
        p == IF ps = <<>> THEN <<>>
             ELSE ParamFields(ps, PIndent(ps)) \o << <<>> >>
        r == IF rets = <<>> THEN <<>>
             ELSE LET rl == trim_lines(Texts(rets))
                  IN  <<<<":","r","e","t","u","r","n","s",":"," ">> \o rl[1]>>
                      \o [k \in 1..(Len(rl) - 1) |-> Spaces(10) \o rl[k + 1]]
    IN  << <<"\n">> >> \o d \o p \o r

\* Lines 222, 238, 246: an index [0] into an empty list raises IndexError.
StrRaises(ps, rets, dep) ==
    \/ ~dep.none /\ dep.lines = <<>>
    \/ \E k \in 1..Len(ps) : trim_lines(Texts(ps[k].lines)) = <<>>
    \/ rets /= <<>> /\ trim_lines(Texts(rets)) = <<>>

\* Line 249: the text __str__ returns.
StrText(description, ps, rets, dep) ==
    description \o RStrip(Join(ToAppend(ps, rets, dep), <<"\n">>))

(***************************************************************************)
(* The state machine: a comment is parsed line by line, the Doc is built,  *)
(* and the Doc is then looked up, changed and rendered.                    *)
(***************************************************************************)

\* The physical lines a comment is made of: a blank line, the tags, the two
\* verbatim markers, a line of text with markup, a block-identity line.
CommentLines ==
    { <<" ","*">>,
      <<" ","*"," ","@","p","a","r","a","m"," ","x"," ","a">>,
      <<"@","p","a","r","a","m"," ","y","y"," ","b">>,
      <<"@","r","e","t","u","r","n"," ","r">>,
      <<"@","d","e","p","r","e","c","a","t","e","d"," ","d">>,
      <<"@","n","o","t","e"," ","n">>,
      <<"<","p","r","e",">">>,
      <<"<","/","p","r","e",">">>,
      <<"<","i",">","t">>,
      <<"\\","f","n"," ","f">> }

\* The names get_param and remove_param are called with: the two a comment
\* can declare and one it cannot.
LookupNames == { <<"x">>, <<"y","y">>, <<"q">> }

VARIABLES
    txt,            \* the physical lines consumed so far (txt.splitlines())
    pc,             \* "parse": in the loop of from_comment; "doc": Doc built
    in_pre, in_block, begin_block,
    current_lines, desc_lines, params, returns, deprecated,
    desc,           \* Doc.desc
    params_dict,    \* Doc._params_dict
    declared,       \* history: the Params of the Doc as from_comment built it
    result          \* what the last call on the Doc did

vars == <<txt, pc, in_pre, in_block, begin_block, current_lines, desc_lines,
          params, returns, deprecated, desc, params_dict, declared, result>>

ParserState ==
    [in_pre |-> in_pre, in_block |-> in_block, begin_block |-> begin_block,
     current_lines |-> current_lines, desc_lines |-> desc_lines,
     params |-> params, returns |-> returns, deprecated |-> deprecated]

NoResult == [op |-> "none", arg |-> <<>>, outcome |-> "none",
             value |-> <<>>, to_append |-> <<>>]

Init ==
    /\ txt = <<>>
    /\ pc = "parse"
    /\ in_pre = StartState.in_pre
    /\ in_block = StartState.in_block
    /\ begin_block = StartState.begin_block
    /\ current_lines = StartState.current_lines
    /\ desc_lines = StartState.desc_lines
    /\ params = StartState.params
    /\ returns = StartState.returns
    /\ deprecated = StartState.deprecated
    /\ desc = <<>>
    /\ params_dict = <<>>
    /\ declared = <<>>
    /\ result = NoResult

\* One iteration of the loop of from_comment (lines 94-199) on the next line.
ReadLine(raw) ==
    /\ pc = "parse"
    /\ Len(txt) < MaxLines
    /\ LET r == LoopBody(ParserState, raw, Len(txt) + 1)
       IN  /\ in_pre' = r.in_pre
           /\ in_block' = r.in_block
           /\ begin_block' = r.begin_block
           /\ current_lines' = r.current_lines
           /\ desc_lines' = r.desc_lines
           /\ params' = r.params
           /\ returns' = r.returns
           /\ deprecated' = r.deprecated
    /\ txt' = Append(txt, raw)
    /\ UNCHANGED <<pc, desc, params_dict, declared, result>>

\* The end of from_comment (lines 201-204) and Doc.__post_init__ (line 65).
MakeDoc ==
    /\ pc = "parse"
    /\ pc' = "doc"
    /\ desc' = DescText(desc_lines)
    /\ params_dict' = OrderedDict(params)
    /\ declared' = params
    /\ UNCHANGED <<txt, in_pre, in_block, begin_block, current_lines,
                   desc_lines, params, returns, deprecated, result>>

\* Doc.get_param (lines 206-207): dict.get gives None for a missing key.
get_param(name) ==
    /\ pc = "doc"
    /\ result' = [op |-> "get_param", arg |-> name, outcome |-> "return",
                  value |-> IF HasKey(params_dict, name)
                            THEN <<Lookup(params_dict, name)>> ELSE <<>>,
                  to_append |-> <<>>]
    /\ UNCHANGED <<txt, pc, in_pre, in_block, begin_block, current_lines,
                   desc_lines, params, returns, deprecated, desc, params_dict,
                   declared>>

\* remove_param that takes the entry with a default (dict.pop(name, None)):
\* a missing key is no error.
remove_param_Silent(name) ==
    /\ pc = "doc"
    /\ IF HasKey(params_dict, name)
       THEN /\ params' = RemoveLoop(params, 1, Lookup(params_dict, name))
            /\ params_dict' = DictDel(params_dict, name)
       ELSE UNCHANGED <<params, params_dict>>
    /\ result' = [op |-> "remove_param", arg |-> name, outcome |-> "return",
                  value |-> <<>>, to_append |-> <<>>]
    /\ UNCHANGED <<txt, pc, in_pre, in_block, begin_block, current_lines,
                   desc_lines, returns, deprecated, desc, declared>>

\* Doc.remove_param (lines 209-214): self._params_dict[name] raises KeyError
\* for a missing key, before anything is changed.
remove_param(name) ==
    /\ pc = "doc"
    /\ IF HasKey(params_dict, name)
       THEN /\ params' = RemoveLoop(params, 1, Lookup(params_dict, name))
            /\ params_dict' = DictDel(params_dict, name)
            /\ result' = [op |-> "remove_param", arg |-> name,
                          outcome |-> "return", value |-> <<>>,
                          to_append |-> <<>>]
       ELSE /\ result' = [op |-> "remove_param", arg |-> name,
                          outcome |-> "KeyError", value |-> <<>>,
                          to_append |-> <<>>]
            /\ UNCHANGED <<params, params_dict>>
    /\ UNCHANGED <<txt, pc, in_pre, in_block, begin_block, current_lines,
                   desc_lines, returns, deprecated, desc, declared>>

\* Doc.__str__ (lines 216-249).
str ==
    /\ pc = "doc"
    /\ result' = IF StrRaises(params, returns, deprecated)
                 THEN [op |-> "__str__", arg |-> <<>>, outcome |-> "IndexError",
                       value |-> <<>>, to_append |-> <<>>]
                 ELSE [op |-> "__str__", arg |-> <<>>, outcome |-> "return",
                       value |-> StrText(desc, params, returns, deprecated),
                       to_append |-> ToAppend(params, returns, deprecated)]
    /\ UNCHANGED <<txt, pc, in_pre, in_block, begin_block, current_lines,
                   desc_lines, params, returns, deprecated, desc, params_dict,
                   declared>>

Next ==
    \/ \E raw \in CommentLines : ReadLine(raw)
    \/ MakeDoc
    \/ \E name \in LookupNames : get_param(name)
    \/ \E name \in LookupNames : remove_param(name)
    \/ str

Spec == Init /\ [][Next]_vars

(***************************************************************************)
(* Properties of the parser.                                               *)
(***************************************************************************)

\* Lines 94-199: the loop of from_comment over a whole list of lines, from
\* the start state.
RECURSIVE from_comment_loop(_)
from_comment_loop(lines) ==
    IF lines = <<>> THEN StartState
    ELSE LoopBody(from_comment_loop(SubSeq(lines, 1, Len(lines) - 1)),
                  lines[Len(lines)], Len(lines))

\* The parser states the loop of from_comment goes through on the comment:
\* element i + 1 is the state after physical line i.
RECURSIVE ParseTrace(_)
ParseTrace(lines) ==
    IF lines = <<>> THEN <<StartState>>
    ELSE LET before == ParseTrace(SubSeq(lines, 1, Len(lines) - 1))
         IN  Append(before,
                    LoopBody(before[Len(before)], lines[Len(lines)], Len(lines)))

\* A step of the parser that consumes one more physical line.
ReadsLine == pc = "parse" /\ Len(txt') = Len(txt) + 1

\* The line that step consumes, decoration stripped, and its number.
NewLine == StripDecoration(txt'[Len(txt')])
NewNumber == Len(txt')

\* The parser state after that step.
ParserStateNext ==
    [in_pre |-> in_pre', in_block |-> in_block', begin_block |-> begin_block',
     current_lines |-> current_lines', desc_lines |-> desc_lines',
     params |-> params', returns |-> returns', deprecated |-> deprecated']

\* The lists of lines a parser state holds: the description, the return
\* lines, the deprecation lines (if any), and each parameter's lines.
Destinations(st) ==
    <<st.desc_lines, st.returns>>
    \o (IF st.deprecated.none THEN <<>> ELSE <<st.deprecated.lines>>)
    \o [k \in 1..Len(st.params) |-> st.params[k].lines]

\* The texts, in order, that physical line n put into the lists of st.
RECURSIVE EntriesOf(_, _)
EntriesOf(lines, n) ==
    IF lines = <<>> THEN <<>>
    ELSE (IF lines[1].src = n THEN <<lines[1].text>> ELSE <<>>)
         \o EntriesOf(Tail(lines), n)

RECURSIVE Flatten(_)
Flatten(lists) ==
    IF lists = <<>> THEN <<>> ELSE lists[1] \o Flatten(Tail(lists))

TextsOfLine(st, n) == EntriesOf(Flatten(Destinations(st)), n)

\* The number of lists of st that hold something of physical line n.
HoldersOfLine(st, n) ==
    Cardinality({d \in 1..Len(Destinations(st)) :
                    EntriesOf(Destinations(st)[d], n) /= <<>>})

\* C1: a blank line processed outside a verbatim block, while the current
\* destination is not the return list, makes the description the current
\* destination and is itself appended to the description, whatever the
\* admonition flags are.
C1_BlankLineResetsToDescription ==
    [][ReadsLine /\ ~in_pre /\ NewLine = <<>> /\ current_lines /= ReturnsRef
        => /\ current_lines' = DescRef
           /\ desc_lines' = Append(desc_lines, Entry(NewNumber, <<>>))]_vars

\* Physical line i of the comment is dropped as a block-identity line: it
\* reaches line 132 and starts with \fn or \class.
IsDroppedLine(trace, i) ==
    LET c == VerbatimChain(trace[i], StripDecoration(txt[i]), i)
    IN  ~c.continue /\ IsBlockIdentity(LStrip(c.line))

\* The Doc is the one from_comment returned: nothing was called on it yet.
FreshDoc == pc = "doc" /\ result.op = "none"

\* C2: in the Document from_comment returns, every physical line that is not
\* a block-identity line is held by exactly one destination, and every
\* block-identity line by none: no processed line is lost.
C2_EveryLineInExactlyOneDestination ==
    FreshDoc =>
        LET trace == ParseTrace(txt)
        IN  \A i \in 1..Len(txt) :
                HoldersOfLine(ParserState, i)
                    = IF IsDroppedLine(trace, i) THEN 0 ELSE 1

\* C3: while in_pre is true, a line other than an end marker changes neither
\* the current destination nor the parameter list, starts no deprecation
\* list, and leaves in_pre true.
C3_VerbatimLineKeepsDestination ==
    [][ReadsLine /\ in_pre /\ NewLine \notin EndMarkers
        => /\ current_lines' = current_lines
           /\ [k \in 1..Len(params') |-> <<params'[k].id, params'[k].name>>]
                = [k \in 1..Len(params) |-> <<params[k].id, params[k].name>>]
           /\ deprecated'.none = deprecated.none
           /\ deprecated'.id = deprecated.id
           /\ in_pre']_vars

\* C3 witness: inside a verbatim block that was opened under a parameter,
\* a line that looks like a parameter tag, a return tag, a deprecation tag or
\* a blank line has just been processed.
C3_Witness ==
    /\ pc = "parse" /\ in_pre /\ txt /= <<>>
    /\ current_lines.kind = "param"
    /\ LET l == StripDecoration(txt[Len(txt)])
       IN  \/ l = <<>>
           \/ ParamMatches(l)
           \/ ReturnMatches(l)
           \/ StartsWith(l, <<"@","d","e","p","r","e","c","a","t","e","d"," ">>)

\* C4: every line between a verbatim open marker and the end marker is
\* appended to the current destination as two spaces followed by the
\* decoration-stripped line, and nothing else is appended, whatever the
\* admonition flags and whatever the line (a blank line, an open marker).
C4_VerbatimLineAppendedUnchanged ==
    [][ReadsLine /\ in_pre /\ NewLine \notin EndMarkers
        => LET want == AppendCurrent(ParserState,
                           <<Entry(NewNumber, <<" "," ">> \o NewLine)>>)
           IN  /\ desc_lines' = want.desc_lines
               /\ params' = want.params
               /\ returns' = want.returns
               /\ deprecated' = want.deprecated]_vars

\* The line reaches the tag chain (lines 135-159) as an admonition tag.
IsNoteLine(line) == StartsWith(LStrip(line), <<"@","n","o","t","e"," ">>)

\* The line is appended by line 199 (it is no verbatim marker or content and
\* no block-identity line).
IsAppendedLine(st, line, n) ==
    LET c == VerbatimChain(st, line, n)
    IN  ~c.continue /\ ~IsBlockIdentity(LStrip(c.line))

AdmonitionIndent == <<" "," "," ">>

\* C5: outside a verbatim block, (a) the introducer line of an admonition tag
\* is appended without the admonition indent, (b) a non-blank line right
\* after the tag line is appended with the three-space indent, and (c) the
\* block ends at a blank line: the line after a blank line is not indented,
\* unless it is a new admonition tag line.  For any sequence of lines.
C5_AdmonitionBlock ==
    [][ReadsLine /\ ~in_pre /\ IsAppendedLine(ParserState, NewLine, NewNumber)
        => LET new == TextsOfLine(ParserStateNext, NewNumber)
               prev == StripDecoration(txt[Len(txt)])
           IN  /\ IsNoteLine(NewLine)
                    => /\ Len(new) = 1
                       /\ StartsWith(new[1], <<".","."," ","n","o","t","e",":",":"," ">>)
               /\ (txt /= <<>> /\ IsNoteLine(prev)
                   /\ ~IsNoteLine(NewLine) /\ NewLine \notin EndMarkers \cup {<<>>})
                    => /\ Len(new) = 1
                       /\ StartsWith(new[1], AdmonitionIndent)
               /\ (txt /= <<>> /\ prev = <<>> /\ ~IsNoteLine(NewLine))
                    => \A k \in 1..Len(new) : ~StartsWith(new[k], AdmonitionIndent)
       ]_vars

\* C6: in the Document from_comment returns, the parameter names are
\* pairwise distinct and the lookup has one entry per parameter.
C6_ParameterNamesUnique ==
    FreshDoc =>
        /\ \A j, k \in 1..Len(params) : params[j].name = params[k].name => j = k
        /\ Len(params_dict) = Len(params)

(***************************************************************************)
(* Properties of the Doc object and of the renderer.                       *)
(***************************************************************************)

\* The last call on the Doc was __str__ and it returned.
Rendered == result.op = "__str__" /\ result.outcome = "return"

\* C7: parsing then rendering never fails: no Doc that from_comment built
\* makes __str__ index an empty list, and every call of __str__ returns.
C7_RenderNeverFails ==
    /\ pc = "doc" => ~StrRaises(params, returns, deprecated)
    /\ result.op = "__str__" => result.outcome = "return"

\* C7 witness: a Doc with a deprecation notice, a parameter and return lines
\* has been rendered.
C7_Witness ==
    /\ Rendered
    /\ ~deprecated.none /\ params /= <<>> /\ returns /= <<>>

ParamLabel == <<":","p","a","r","a","m"," ">>

\* The entries of a rendered list that open a parameter field.
IsFieldStart(e) == StartsWith(e, ParamLabel)

\* The parameter names of the fields of a rendered list, in output order.
RECURSIVE FieldNames(_)
FieldNames(out) ==
    IF out = <<>> THEN <<>>
    ELSE (IF IsFieldStart(out[1])
          THEN <<SubSeq(Drop(out[1], Len(ParamLabel)), 1,
                        WordRun(Drop(out[1], Len(ParamLabel))))>>
          ELSE <<>>)
         \o FieldNames(Tail(out))

\* The physical lines of the comment that are parameter tags (the parse has
\* one Param more after the line than before it), with the name each
\* declares.
TagsOf(trace) ==
    {<<i, trace[i + 1].params[Len(trace[i + 1].params)].name>> :
        i \in {j \in 1..(Len(trace) - 1) :
                  Len(trace[j + 1].params) > Len(trace[j].params)}}

\* C8: the parameter fields of the rendered output are in the order of the
\* parameter tags of the comment: field k is the parameter declared by tag
\* line params[k].id, these lines increase with k, and no tag is missing
\* from a Doc that nothing was removed from.  This holds after any sequence
\* of remove_param calls too.
C8_ParametersInTagOrder ==
    /\ Rendered =>
        /\ FieldNames(result.to_append) = [k \in 1..Len(params) |-> params[k].name]
        /\ LET tags == TagsOf(ParseTrace(txt))
           IN  \A k \in 1..Len(params) : <<params[k].id, params[k].name>> \in tags
        /\ \A j, k \in 1..Len(params) : j < k => params[j].id < params[k].id
    /\ FreshDoc =>
        {<<params[k].id, params[k].name>> : k \in 1..Len(params)}
            = TagsOf(ParseTrace(txt))

\* C8 witness: two parameters of different names with a return tag between
\* their tags have been rendered.
C8_Witness ==
    /\ Rendered
    /\ Len(params) = 2 /\ params[1].name /= params[2].name
    /\ Len(txt) = 3 /\ ReturnMatches(StripDecoration(txt[2]))

\* The parameter fields of a rendered list: the entries from the first field
\* start up to the empty entry that ends the parameter block.
RECURSIVE UpToEmpty(_)
UpToEmpty(out) ==
    IF out = <<>> \/ out[1] = <<>> THEN <<>>
    ELSE <<out[1]>> \o UpToEmpty(Tail(out))

RECURSIVE ParamBlock(_)
ParamBlock(out) ==
    IF out = <<>> THEN <<>>
    ELSE IF IsFieldStart(out[1]) THEN UpToEmpty(out)
    ELSE ParamBlock(Tail(out))

AllSpaces(s) == \A i \in 1..Len(s) : s[i] = " "

\* The column the names of the output call for: the longest name plus the
\* length of the fixed label overhead.
AlignColumn(names) ==
    LET lens == {Len(names[k]) : k \in 1..Len(names)}
    IN  (CHOOSE m \in lens : \A l \in lens : l <= m)
        + Len(<<":","p","a","r","a","m"," ",":"," ">>)

\* C9: in the rendered output, the description of every parameter field
\* starts at the same column, the longest parameter name plus the label
\* overhead: the label of a field start is no longer than that column and is
\* padded to it with spaces only, the description follows at once, and every
\* continuation line starts with that many spaces.
C9_ParameterColumnsAligned ==
    Rendered /\ params /= <<>> =>
        LET block == ParamBlock(result.to_append)
            names == FieldNames(result.to_append)
            col == AlignColumn(names)
        IN  /\ Len(names) = Len(params)
            /\ \A k \in 1..Len(block) :
                 LET e == block[k]
                 IN  IF IsFieldStart(e)
                     THEN LET label == Len(ParamLabel)
                                       + WordRun(Drop(e, Len(ParamLabel))) + 2
                          IN  /\ label <= col
                              /\ Len(e) >= col
                              /\ SubSeq(e, label - 1, label) = <<":"," ">>
                              /\ AllSpaces(SubSeq(e, label + 1, col))
                              /\ Len(e) > col => e[col + 1] \notin Whitespace
                     ELSE Len(e) >= col /\ AllSpaces(SubSeq(e, 1, col))

\* C9 witness: two parameters have been rendered, the one with the shorter
\* name first and with a continuation line.
C9_Witness ==
    /\ Rendered
    /\ Len(params) = 2
    /\ Len(params[1].name) < Len(params[2].name)
    /\ Len(trim_lines(Texts(params[1].lines))) >= 2

\* The name was never declared by a parameter tag of the comment.
NeverDeclared(name) ==
    \A k \in 1..Len(declared) : declared[k].name /= name

\* C10 as stated: get_param and remove_param of a name that was never
\* declared both end in an error, not in a normal return.
C10_UndeclaredLookupFails ==
    (result.op \in {"get_param", "remove_param"} /\ NeverDeclared(result.arg))
        => result.outcome /= "return"

\* C10 as amended: remove_param of a name that was never declared ends in
\* the lookup error KeyError; get_param of such a name returns normally, and
\* what it returns is None.
C10_UndeclaredRemoveFailsGetReturnsNone ==
    (result.op \in {"get_param", "remove_param"} /\ NeverDeclared(result.arg))
        => IF result.op = "remove_param"
           THEN result.outcome = "KeyError"
           ELSE result.outcome = "return" /\ result.value = <<>>

\* C10 witness: remove_param of a never declared name has raised on a Doc
\* that holds a parameter.
C10_Witness ==
    /\ result.op = "remove_param" /\ result.outcome = "KeyError"
    /\ NeverDeclared(result.arg)
    /\ params /= <<>>

\* The parameter names the comment declared are pairwise distinct.
DistinctNames ==
    \A j, k \in 1..Len(declared) :
        declared[j].name = declared[k].name => j = k

\* The elements of a list of Params, or of dict entries, not named name.
NotNamed(s, name) == SelectSeq(s, LAMBDA e : e.name /= name)

\* C11: on a Document whose parameter names are distinct, remove_param(n)
\* takes exactly the entry named n out of the parameter list and out of the
\* name lookup (get_param(n) then finds nothing, no :param n: field is
\* rendered) and leaves the description, the return lines, the deprecation
\* notice and every other parameter, with its lines and in its order,
\* unchanged; for a name that is not there it changes nothing.
C11_RemoveParamFrame ==
    [][(pc = "doc" /\ result'.op = "remove_param" /\ DistinctNames)
        => LET n == result'.arg
           IN  /\ params' = NotNamed(params, n)
               /\ params_dict' = NotNamed(params_dict, n)
               /\ Len(params') = Len(params) - (IF HasKey(params_dict, n) THEN 1 ELSE 0)
               /\ ~HasKey(params_dict', n)
               /\ \A k \in 1..Len(FieldNames(ToAppend(params', returns', deprecated'))) :
                      FieldNames(ToAppend(params', returns', deprecated'))[k] /= n
               /\ desc' = desc /\ returns' = returns /\ deprecated' = deprecated
               /\ ~HasKey(params_dict, n)
                    => params' = params /\ params_dict' = params_dict]_vars

\* C11 witness: of two parameters with different names and with return
\* lines, the first has been removed and the second is the one left.
C11_Witness ==
    /\ result.op = "remove_param" /\ result.outcome = "return"
    /\ DistinctNames /\ Len(declared) = 2 /\ returns /= <<>>
    /\ result.arg = declared[1].name
    /\ params = <<declared[2]>>
    /\ Len(params_dict) = 1 /\ params_dict[1].name = declared[2].name

DeprecatedTagText == <<"@","d","e","p","r","e","c","a","t","e","d"," ">>

\* The line is a deprecation tag line: the tag followed by the text of the
\* notice.
IsDeprecatedTagLine(line) == StartsWith(LStrip(line), DeprecatedTagText)

\* The physical lines of the comment that are deprecation tag lines read
\* outside a verbatim block, and those read inside one.
DeprecatedTagsOutside(trace) ==
    {i \in 1..Len(txt) :
        ~trace[i].in_pre /\ IsDeprecatedTagLine(StripDecoration(txt[i]))}
DeprecatedTagsInside(trace) ==
    {i \in 1..Len(txt) :
        trace[i].in_pre /\ IsDeprecatedTagLine(StripDecoration(txt[i]))}

\* C12: in the Document from_comment returns the deprecation notice is
\* there (not None) exactly if a deprecation tag line was processed outside
\* a verbatim block; a notice that is there is never an empty list, and
\* with no tag seen the notice is None.
C12_DeprecationPresentIffTagSeen ==
    FreshDoc =>
        /\ ~deprecated.none <=> DeprecatedTagsOutside(ParseTrace(txt)) /= {}
        /\ ~deprecated.none => deprecated.lines /= <<>>
        /\ deprecated.none => deprecated = NoneList

\* C12 witness: a Document with a notice from a tag on the first line, and
\* with a second deprecation tag line that was inside a verbatim block.
C12_Witness ==
    /\ FreshDoc /\ ~deprecated.none /\ deprecated.id = 1
    /\ DeprecatedTagsInside(ParseTrace(txt)) /= {}

\* The joined and stripped description lines, before the collapse (line 201).
JoinedDescription == Strip(Join(Texts(desc_lines), <<"\n">>))

\* A list of lines without every empty line that follows an empty line.
RECURSIVE Dedup(_)
Dedup(lines) ==
    IF Len(lines) < 2 THEN lines
    ELSE IF lines[1] = <<>> /\ lines[2] = <<>> THEN Dedup(Tail(lines))
    ELSE <<lines[1]>> \o Dedup(Tail(lines))

\* C13: the description of the Document from_comment returns neither starts
\* nor ends with a blank line (nor with any whitespace), holds no two
\* consecutive empty lines, is the joined description lines with every run
\* of empty lines collapsed to one empty line, and the collapse applied to
\* it again changes nothing.
C13_DescriptionCollapsed ==
    pc = "doc" =>
        LET lines == SplitNL(desc)
        IN  /\ desc /= <<>> =>
                  desc[1] \notin Whitespace /\ desc[Len(desc)] \notin Whitespace
            /\ \A i \in 1..(Len(lines) - 1) : ~(lines[i] = <<>> /\ lines[i + 1] = <<>>)
            /\ lines = Dedup(SplitNL(JoinedDescription))
            /\ CollapseBlank(desc) = desc

\* C13 witness: a Document whose joined description lines held a run of two
\* empty lines between two texts.
C13_Witness ==
    /\ FreshDoc
    /\ \E i \in 1..(Len(JoinedDescription) - 2) :
          SubSeq(JoinedDescription, i, i + 2) = <<"\n","\n","\n">>
    /\ desc /= JoinedDescription

DeprecatedLabel == <<":","d","e","p","r","e","c","a","t","e","d",":"," ">>
ReturnsLabel == <<":","r","e","t","u","r","n","s",":"," ">>

\* The places of a rendered list where a field of each kind starts.
DeprecatedStarts(out) == {i \in 1..Len(out) : StartsWith(out[i], DeprecatedLabel)}
ParamStarts(out) == {i \in 1..Len(out) : IsFieldStart(out[i])}
ReturnsStarts(out) == {i \in 1..Len(out) : StartsWith(out[i], ReturnsLabel)}

\* C14: the text __str__ returns is the description, once and first,
\* followed by the fields in the order :deprecated: (exactly if there is a
\* notice), the :param: fields (one per parameter), :returns: (exactly if
\* there are return lines); the deprecated field and the returns field
\* occur at most once, an empty line lies between the deprecated field and
\* the first parameter field and between the parameter block and the
\* returns field, and with no notice, no parameters and no return lines the
\* text is the description itself.
C14_RenderOrder ==
    Rendered =>
        LET out == result.to_append
            D == DeprecatedStarts(out)
            P == ParamStarts(out)
            R == ReturnsStarts(out)
            rest == Drop(result.value, Len(desc))
        IN  /\ StartsWith(result.value, desc)
            /\ rest = RStrip(Join(out, <<"\n">>))
            /\ Cardinality(D) = (IF deprecated.none THEN 0 ELSE 1)
            /\ Cardinality(P) = Len(params)
            /\ Cardinality(R) = (IF returns = <<>> THEN 0 ELSE 1)
            /\ \A d \in D : \A p \in P : d < p
            /\ \A d \in D : \A r \in R : d < r
            /\ \A p \in P : \A r \in R : p < r
            /\ \A d \in D : \A p \in P :
                  (\A q \in P : p <= q) => \E e \in (d + 1)..(p - 1) : out[e] = <<>>
            /\ \A p \in P : \A r \in R : out[r - 1] = <<>>
            /\ D \cup P \cup R /= {} =>
                  /\ 2 \in D \cup P \cup R
                  /\ StartsWith(rest, <<"\n","\n",":">>)
            /\ (deprecated.none /\ params = <<>> /\ returns = <<>>)
                  => result.value = desc

\* C14 witness: a Document with a notice, a parameter and return lines has
\* been rendered, and the text starts with the empty description followed
\* by the deprecated field.
C14_Witness ==
    /\ Rendered
    /\ ~deprecated.none /\ params /= <<>> /\ returns /= <<>>
    /\ StartsWith(result.value, <<"\n","\n">> \o DeprecatedLabel)

\* The line reads as a parameter tag or as a deprecation tag.
IsDestinationTag(line) ==
    ParamMatches(LStrip(line)) \/ IsDeprecatedTagLine(line)

\* C17: while the return list is the current destination, a line changes
\* the destination only if it is a parameter tag or a deprecation tag that
\* is processed (a Param or a deprecation list is made); any other line, a
\* blank line too, leaves the return list current, appends nothing to the
\* description or to any other list, and what it appends goes to the return
\* lines.
C17_ReturnDestinationSticky ==
    [][ReadsLine /\ current_lines = ReturnsRef
        => /\ current_lines' /= ReturnsRef
                => /\ IsDestinationTag(NewLine)
                   /\ \/ Len(params') = Len(params) + 1
                      \/ deprecated'.id = NewNumber
           /\ ~IsDestinationTag(NewLine)
                => /\ current_lines' = ReturnsRef
                   /\ desc_lines' = desc_lines
                   /\ params' = params
                   /\ deprecated' = deprecated
                   /\ returns' = returns
                        \o [k \in 1..Len(TextsOfLine(ParserStateNext, NewNumber)) |->
                              Entry(NewNumber,
                                    TextsOfLine(ParserStateNext, NewNumber)[k])]
                   /\ IsAppendedLine(ParserState, NewLine, NewNumber)
                        => Len(returns') = Len(returns) + 1]_vars

\* C17 witness: a return tag, then a blank line, then an untagged line have
\* been processed: all three are in the return lines, none in the
\* description.
C17_Witness ==
    /\ pc = "parse" /\ Len(txt) = 3
    /\ ReturnMatches(StripDecoration(txt[1]))
    /\ StripDecoration(txt[2]) = <<>>
    /\ StripDecoration(txt[3]) = <<"<","i",">","t">>
    /\ current_lines = ReturnsRef
    /\ Len(returns) = 3 /\ desc_lines = <<>>

(***************************************************************************)
(* The parser on comments made of verbatim markers.                        *)
(***************************************************************************)

\* Raw lines with both open markers, both end markers, the open marker with
\* text on its line, a markup line and a blank line.
MarkerLines ==
    { <<"<","p","r","e",">">>,
      <<"<","/","p","r","e",">">>,
      <<"@","c","o","d","e">>,
      <<"@","e","n","d","c","o","d","e">>,
      <<"@","c","o","d","e"," ","y">>,
      <<"<","b",">","x">>,
      <<" ","*">> }

NextMarkers ==
    \/ \E raw \in MarkerLines : ReadLine(raw)
    \/ MakeDoc
    \/ str

SpecMarkers == Init /\ [][NextMarkers]_vars

\* The number of the physical line that opened the verbatim block the
\* parser is in: the last line that set in_pre from false to true.
OpenerOf(trace) ==
    LET opens == {i \in 1..(Len(trace) - 1) : ~trace[i].in_pre /\ trace[i + 1].in_pre}
    IN  CHOOSE i \in opens : \A j \in opens : j <= i

\* The end marker that matches the open marker of a line.
MatchingEnd(line) ==
    IF line = <<"<","p","r","e",">">> THEN <<"<","/","p","r","e",">">>
    ELSE <<"@","e","n","d","c","o","d","e">>

\* C18: a verbatim block is closed only by the end marker that matches its
\* open marker: whenever a line sets in_pre from true to false, the line is
\* </pre> if the block was opened by <pre>, and @endcode if it was opened
\* by @code.
C18_OnlyMatchingEndMarkerCloses ==
    [][ReadsLine /\ in_pre /\ ~in_pre'
        => NewLine = MatchingEnd(StripDecoration(txt[OpenerOf(ParseTrace(txt))]))]_vars

(***************************************************************************)
(* java_type_to_python: a declared type as a Python type hint.             *)
(***************************************************************************)

\* The generic nesting depth of the declared types.
MaxDepth == 2

\* Lines 18-36: the substitution table, as <<key, value>> pairs.
TYPE_MAPPING ==
    {
      <<<<"A","r","r","a","y","L","i","s","t">>, <<"L","i","s","t">>>>,
       <<<<"<">>, <<"[">>>>,
       <<<<">">>, <<"]">>>>,
       <<<<"b","o","o","l","e","a","n">>, <<"b","o","o","l">>>>,
       <<<<"B","o","o","l","e","a","n">>, <<"b","o","o","l">>>>,
       <<<<"I","n","t","e","g","e","r">>, <<"i","n","t">>>>,
       <<<<"L","o","n","g">>, <<"i","n","t">>>>,
       <<<<"l","o","n","g">>, <<"i","n","t">>>>,
       <<<<"S","h","o","r","t">>, <<"i","n","t">>>>,
       <<<<"s","h","o","r","t">>, <<"i","n","t">>>>,
       <<<<"B","y","t","e">>, <<"i","n","t">>>>,
       <<<<"b","y","t","e">>, <<"i","n","t">>>>,
       <<<<"d","o","u","b","l","e">>, <<"f","l","o","a","t">>>>,
       <<<<"D","o","u","b","l","e">>, <<"f","l","o","a","t">>>>,
       <<<<"F","l","o","a","t">>, <<"f","l","o","a","t">>>>,
       <<<<"S","t","r","i","n","g">>, <<"s","t","r">>>>,
       <<<<"B","y","t","e","B","u","f","f","e","r">>, <<"b","y","t","e","a","r","r","a","y">>>> }

\* word in TYPE_MAPPING, and TYPE_MAPPING[word]
IsMapped(word) == \E e \in TYPE_MAPPING : e[1] = word
Mapped(word) == (CHOOSE e \in TYPE_MAPPING : e[1] = word)[2]

\* s.endswith(p)
EndsWith(s, p) == Len(s) >= Len(p) /\ SubSeq(s, Len(s) - Len(p) + 1, Len(s)) = p

\* Line 271: re.split(r"(\w+)", s).  The pieces at the odd places are the
\* runs of non-word characters between the words (empty at either end when
\* the text starts or ends with a word), those at the even places the words.
RECURSIVE ReSplitWords(_)
ReSplitWords(s) ==
    LET nw == NonWordRun(s)
        rest == Drop(s, nw)
        w == WordRun(rest)
    IN  IF rest = <<>> THEN <<SubSeq(s, 1, nw)>>
        ELSE <<SubSeq(s, 1, nw), SubSeq(rest, 1, w)>> \o ReSplitWords(Drop(rest, w))

\* Lines 272-274: every piece that is a key of the table is replaced.
MapWords(type_words) ==
    [i \in 1..Len(type_words) |->
        IF IsMapped(type_words[i]) THEN Mapped(type_words[i]) ELSE type_words[i]]

\* Lines 258-280.
PythonType(type) ==
    IF type = <<"v","o","i","d">> THEN <<"N","o","n","e">>
    ELSE IF type = <<"b","y","t","e","[","]">> THEN <<"b","y","t","e","s">>
    ELSE LET is_array == EndsWith(type, <<"[","]">>)
             t == IF is_array THEN SubSeq(type, 1, Len(type) - 2) ELSE type
             joined == Join(MapWords(ReSplitWords(t)), <<>>)
         IN  IF is_array THEN <<"L","i","s","t","[">> \o joined \o <<"]">>
             ELSE joined

\* The identifiers the declared types are built from: two keys of the table,
\* one of them the element type of the bytes special case, and two names the
\* table does not hold.
TypeIdents ==
    { <<"A","r","r","a","y","L","i","s","t">>,
      <<"S","t","r","i","n","g">>,
      <<"b","y","t","e">>,
      <<"F","o","o">> }

\* The generic types of nesting depth d at most: an identifier, or an
\* identifier with a generic type in angle brackets.
RECURSIVE Generic(_)
Generic(d) ==
    IF d = 0 THEN TypeIdents
    ELSE TypeIdents
         \cup {id \o <<"<">> \o g \o <<">">> : id \in TypeIdents, g \in Generic(d - 1)}

\* The type tokens: void, and the generic types with and without a trailing [].
TypeTokens ==
    {<<"v","o","i","d">>}
    \cup Generic(MaxDepth)
    \cup {g \o <<"[","]">> : g \in Generic(MaxDepth)}

\* The state before a call of java_type_to_python: the argument is chosen.
InitTypes ==
    /\ txt = <<>>
    /\ pc = "type"
    /\ in_pre = StartState.in_pre
    /\ in_block = StartState.in_block
    /\ begin_block = StartState.begin_block
    /\ current_lines = StartState.current_lines
    /\ desc_lines = StartState.desc_lines
    /\ params = StartState.params
    /\ returns = StartState.returns
    /\ deprecated = StartState.deprecated
    /\ desc = <<>>
    /\ params_dict = <<>>
    /\ declared = <<>>
    /\ result \in {[NoResult EXCEPT !.arg = t] : t \in TypeTokens}

\* java_type_to_python (lines 258-280) on the chosen argument.
java_type_to_python ==
    /\ pc = "type"
    /\ result.op = "none"
    /\ result' = [op |-> "java_type_to_python", arg |-> result.arg,
                  outcome |-> "return", value |-> PythonType(result.arg),
                  to_append |-> <<>>]
    /\ UNCHANGED <<txt, pc, in_pre, in_block, begin_block, current_lines,
                   desc_lines, params, returns, deprecated, desc, params_dict,
                   declared>>

NextTypes == java_type_to_python

SpecTypes == InitTypes /\ [][NextTypes]_vars

\* The words of a text, in order.
IdentsOf(s) ==
    LET pieces == ReSplitWords(s)
    IN  [k \in 1..(Len(pieces) \div 2) |-> pieces[2 * k]]

\* C20: for every type token built from identifiers, angle brackets and an
\* optional trailing [], nested generics too, the result of
\* java_type_to_python holds no angle bracket, its identifiers are those of
\* the token with every key of the table replaced by its entry, and a
\* trailing [] wraps the result in List[...], byte[] being bytes.
C20_GenericBracketsRewritten ==
    (result.op = "java_type_to_python" /\ result.arg /= <<"v","o","i","d">>)
        => LET type == result.arg
               v == result.value
               is_array == EndsWith(type, <<"[","]">>)
               base == IF is_array THEN SubSeq(type, 1, Len(type) - 2) ELSE type
               want == [k \in 1..Len(IdentsOf(base)) |->
                          IF IsMapped(IdentsOf(base)[k])
                          THEN Mapped(IdentsOf(base)[k]) ELSE IdentsOf(base)[k]]
           IN  /\ \A i \in 1..Len(v) : v[i] \notin {"<", ">"}
               /\ IF type = <<"b","y","t","e","[","]">> THEN v = <<"b","y","t","e","s">>
                  ELSE IF is_array
                  THEN /\ StartsWith(v, <<"L","i","s","t","[">>) /\ v[Len(v)] = "]"
                       /\ IdentsOf(v) = <<<<"L","i","s","t">>>> \o want
                  ELSE IdentsOf(v) = want

(***************************************************************************)
(* The front end: process_raw, the declaration search, and the encoders.   *)
(***************************************************************************)

\* Lines 298 and 326: re.sub(r"(?m)^\+", "", txt), one plus sign off the
\* start of every line.
RECURSIVE StripPlusLines(_)
StripPlusLines(ls) ==
    IF ls = <<>> THEN <<>>
    ELSE <<IF StartsWith(ls[1], <<"+">>) THEN Tail(ls[1]) ELSE ls[1]>>
         \o StripPlusLines(Tail(ls))

StripDiffPlus(text) == Join(StripPlusLines(SplitNL(text)), <<"\n">>)

\* The modifier keywords of FIND_FUNC_RE (line 16).
Modifiers ==
    { <<"p","u","b","l","i","c">>,
      <<"p","r","o","t","e","c","t","e","d">>,
      <<"p","r","i","v","a","t","e">>,
      <<"s","t","a","t","i","c">>,
      <<"f","i","n","a","l">>,
      <<"s","y","n","c","h","r","o","n","i","z","e","d">>,
      <<"a","b","s","t","r","a","c","t">>,
      <<"d","e","f","a","u","l","t">>,
      <<"n","a","t","i","v","e">> }

\* The characters of the class [\w<>[\]] of FIND_FUNC_RE.
TypeChars == WordChars \cup {"<", ">", "[", "]"}

\* The longest prefix of s made of whitespace (\s*), as a length.
RECURSIVE SpaceRun(_)
SpaceRun(s) ==
    IF s = <<>> THEN 0
    ELSE IF s[1] \in Whitespace THEN 1 + SpaceRun(Tail(s)) ELSE 0

\* The longest prefix of s made of type characters, as a length.
RECURSIVE TypeRun(_)
TypeRun(s) ==
    IF s = <<>> THEN 0
    ELSE IF s[1] \in TypeChars THEN 1 + TypeRun(Tail(s)) ELSE 0

\* The length of one (?:keyword\s+) at the start of s, 0 if there is none.
ModifierUnit(s) ==
    IF \E kw \in Modifiers : StartsWith(s, kw) /\ SpaceRun(Drop(s, Len(kw))) >= 1
    THEN LET kw == CHOOSE k \in Modifiers :
                      StartsWith(s, k) /\ SpaceRun(Drop(s, Len(k))) >= 1
         IN  Len(kw) + SpaceRun(Drop(s, Len(kw)))
    ELSE 0

\* The lengths of the prefixes of s made of 1, 2, ... modifier units, each
\* counted from at, the length of the units before s.
RECURSIVE ModifierEnds(_, _)
ModifierEnds(s, at) ==
    IF ModifierUnit(s) = 0 THEN <<>>
    ELSE <<at + ModifierUnit(s)>>
         \o ModifierEnds(Drop(s, ModifierUnit(s)), at + ModifierUnit(s))

NoMatch == [found |-> FALSE, ret_type |-> <<>>, func_name |-> <<>>, args |-> <<>>]

\* \(([^)]*)\) at the start of s, after the name: the argument list is what
\* lies between the parenthesis and the first closing one.
ArgsOf(name, s) ==
    IF StartsWith(s, <<"(">>) /\ \E i \in 2..Len(s) : s[i] = ")"
    THEN [found |-> TRUE, ret_type |-> <<>>, func_name |-> name,
          args |-> SubSeq(s, 2, (CHOOSE i \in 2..Len(s) :
                          s[i] = ")" /\ \A j \in 2..(i - 1) : s[j] /= ")") - 1)]
    ELSE NoMatch

\* (\w+)\s*\(([^)]*)\) at the start of s: the name and the argument list.
NameAndArgs(s) ==
    IF WordRun(s) = 0 THEN NoMatch
    ELSE ArgsOf(SubSeq(s, 1, WordRun(s)),
                Drop(s, WordRun(s) + SpaceRun(Drop(s, WordRun(s)))))

\* ([\w<>[\]]+)\s+(\w+)\s*\(([^)]*)\) at the start of s.
TypedNameAndArgs(s) ==
    IF TypeRun(s) >= 1 /\ SpaceRun(Drop(s, TypeRun(s))) >= 1
    THEN NameAndArgs(Drop(s, TypeRun(s) + SpaceRun(Drop(s, TypeRun(s)))))
    ELSE NoMatch

\* The match with the type, when there is one, and else the match without.
\* ret_type is a list of zero or one type (None when the group took no part).
PreferTyped(s, typed, untyped) ==
    IF typed.found THEN [typed EXCEPT !.ret_type = <<SubSeq(s, 1, TypeRun(s))>>]
    ELSE untyped

\* (?:([\w<>[\]]+)\s+)?(\w+)\s*\(([^)]*)\) at the start of s: the optional
\* type is tried first, and given up when the rest does not match with it.
TypeNameArgs(s) == PreferTyped(s, TypedNameAndArgs(s), NameAndArgs(s))

\* ((?:(?:keyword)\s+)+) then the rest of the declaration, at the start of
\* s: the repetition takes as many modifier units as it can (the k-th end of
\* ends, k the largest first) and gives them back one by one while the rest
\* does not match.
RECURSIVE TryModifiers(_, _, _)
MatchedWith(s, ends, k, m) ==
    IF m.found
    THEN [found |-> TRUE, modifiers |-> SubSeq(s, 1, ends[k]),
          ret_type |-> m.ret_type, func_name |-> m.func_name, args |-> m.args]
    ELSE TryModifiers(s, ends, k - 1)

TryModifiers(s, ends, k) ==
    IF k = 0 THEN [found |-> FALSE]
    ELSE MatchedWith(s, ends, k, TypeNameArgs(Drop(s, ends[k])))

ModifiersAndRest(s, ends) == TryModifiers(s, ends, Len(ends))

\* \s*((?:(?:keyword)\s+)+)(?:(type)\s+)?(name)\s*\((args)\) at the start of
\* rest.
Declaration(rest) ==
    ModifiersAndRest(Drop(rest, SpaceRun(rest)),
                     ModifierEnds(Drop(rest, SpaceRun(rest)), 0))

\* Lines 301 and 329: re.split(FIND_FUNC_RE, txt), as far as the code reads
\* it: s[0] (before) and, with a match, s[2:6].  The expression starts with
\* (.*)\n, so the leftmost match starts at the start of the first line whose
\* newline is followed by a declaration; before is the text ahead of that
\* line.  ls are the lines of the text and L the line the search is at.
RECURSIVE FindFrom(_, _)
FoundAt(ls, L, d) ==
    IF d.found
    THEN [found |-> TRUE,
          before |-> Join(SubSeq(ls, 1, L - 1) \o << <<>> >>, <<"\n">>),
          modifiers |-> d.modifiers, ret_type |-> d.ret_type,
          func_name |-> d.func_name, args |-> d.args]
    ELSE FindFrom(ls, L + 1)

FindFrom(ls, L) ==
    IF L >= Len(ls) THEN [found |-> FALSE, before |-> Join(ls, <<"\n">>)]
    ELSE FoundAt(ls, L, Declaration(Join(SubSeq(ls, L + 1, Len(ls)), <<"\n">>)))

FindFunc(text) == FindFrom(SplitNL(text), 1)

\* What a call ends in: a returned text, or the exception it raised.
Returned(text) == [outcome |-> "return", value |-> text]
Raised(exception) == [outcome |-> exception, value |-> <<>>]

\* Line 91: txt.splitlines(), for texts whose only line boundary is the
\* newline: no empty last line after a final newline, no line at all for the
\* empty text.
SplitLines(text) ==
    IF text = <<>> THEN <<>>
    ELSE IF text[Len(text)] = "\n" THEN SplitNL(SubSeq(text, 1, Len(text) - 1))
    ELSE SplitNL(text)

\* text.splitlines(True): the lines ls of the text with their newlines kept.
KeepEnds(text, ls) ==
    [k \in 1..Len(ls) |->
        IF k < Len(ls) \/ text[Len(text)] = "\n" THEN Append(ls[k], "\n")
        ELSE ls[k]]

\* The prefix in front of every line, the blank ones too.
RECURSIVE IndentLines_All(_, _)
IndentLines_All(ls, prefix) ==
    IF ls = <<>> THEN <<>>
    ELSE prefix \o ls[1] \o IndentLines_All(Tail(ls), prefix)

\* The prefix in front of every line that does not consist of whitespace
\* alone.
RECURSIVE IndentLines(_, _)
IndentLines(ls, prefix) ==
    IF ls = <<>> THEN <<>>
    ELSE (IF Strip(ls[1]) /= <<>> THEN prefix \o ls[1] ELSE ls[1])
         \o IndentLines(Tail(ls), prefix)

\* textwrap.indent(text, prefix)
Indent(text, prefix) == IndentLines(KeepEnds(text, SplitLines(text)), prefix)

\* sub in s
Contains(s, sub) == \E i \in 0..(Len(s) - Len(sub)) : StartsWith(Drop(s, i), sub)

\* s.split(sep), sep not empty: always at least one piece.
RECURSIVE SplitOn(_, _)
SplitOn(s, sep) ==
    IF ~Contains(s, sep) THEN <<s>>
    ELSE LET k == CHOOSE i \in 0..(Len(s) - Len(sep)) :
                    /\ StartsWith(Drop(s, i), sep)
                    /\ \A j \in 0..(i - 1) : ~StartsWith(Drop(s, j), sep)
         IN  <<SubSeq(s, 1, k)>> \o SplitOn(Drop(s, k + Len(sep)), sep)

\* Line 249 on the Doc that from_comment returns with the parser state st.
StrOf(st) ==
    IF StrRaises(st.params, st.returns, st.deprecated) THEN Raised("IndexError")
    ELSE Returned(StrText(DescText(st.desc_lines), st.params, st.returns,
                          st.deprecated))

\* Lines 252-255: str(Doc.from_comment(txt)).
process_doc(text) == StrOf(from_comment_loop(SplitLines(text)))

\* Lines 294-302.
process_raw(text) == process_doc(FindFunc(StripDiffPlus(text)).before)

\* Line 308, on the text t that process_raw returned.
YamlText(t) == <<" "," ","d","o","c",":"," ","|","\n">> \o Indent(t, Spaces(4))

\* Line 314, on the text t that process_raw returned.
CStringText(t) ==
    <<"\"">>
    \o Replace(Replace(t, <<"\\">>, <<"\\","\\">>),
               <<"\n">>, <<"\\","n","\"","\n","\"">>)
    \o <<"\"">>

\* Line 319, on the text t that process_raw returned.
CommentText(t) ==
    <<" "," "," "," ","#",":"," ">> \o Replace(t, <<"\n">>, <<"\n"," "," "," "," ","#",":"," ">>)

\* Lines 283-291, with the default indent of eight spaces.
format_docstring(text) ==
    IF Count(text, <<"\n">>) = 0
    THEN Spaces(8) \o (IF Contains(text, <<"\\">>) THEN <<"r">> ELSE <<>>)
         \o <<"\"","\"","\"">> \o text \o <<"\"","\"","\"">>
    ELSE Indent((IF Contains(text, <<"\\">>) THEN <<"r">> ELSE <<>>)
                \o <<"\"","\"","\"">> \o text \o <<"\n","\"","\"","\"">>,
                Spaces(8))

\* An exception of process_raw goes through the encoder that called it.
YamlOf(t) == IF t.outcome = "return" THEN Returned(YamlText(t.value)) ELSE t
CStringOf(t) == IF t.outcome = "return" THEN Returned(CStringText(t.value)) ELSE t
CommentOf(t) == IF t.outcome = "return" THEN Returned(CommentText(t.value)) ELSE t

\* Lines 305-309.
process_yamlgen(text) == YamlOf(process_raw(text))

\* Lines 312-314.
process_cstring(text) == CStringOf(process_raw(text))

\* Lines 317-319.
process_comment(text) == CommentOf(process_raw(text))

\* Lines 342-345: the type and the name of the words of one argument.
\* split[0] of an argument without a word raises IndexError, and the
\* unpacking of anything but two words raises ValueError.
TypeAndName(split) ==
    IF split = <<>> THEN Raised("IndexError")
    ELSE IF split[1] /= <<"f","i","n","a","l">>
    THEN (IF Len(split) = 2 THEN Returned(split) ELSE Raised("ValueError"))
    ELSE (IF Len(split) = 3 THEN Returned(Tail(split)) ELSE Raised("ValueError"))

\* Line 346: the Python argument of a type and a name.
PyArgOf(pair) ==
    IF pair.outcome /= "return" THEN pair
    ELSE Returned(pair.value[2] \o <<":"," ">> \o PythonType(pair.value[1]))

\* Lines 339-346: the loop over the arguments.  The result is the list
\* py_args, or the exception of the first argument that raises one.
RECURSIVE PyArgs(_)
PyArgsWith(first, rest) ==
    IF first.outcome /= "return" THEN first
    ELSE IF rest.outcome /= "return" THEN rest
    ELSE Returned(<<first.value>> \o rest.value)

PyArgs(args) ==
    IF args = <<>> THEN Returned(<<>>)
    ELSE PyArgsWith(PyArgOf(TypeAndName(SplitWords(args[1]))), PyArgs(Tail(args)))

\* Lines 336-348: the argument list of the signature, for the argument-list
\* string of the declaration; the empty string stays as it is.
SignatureArgsOf(py_args) ==
    IF py_args.outcome /= "return" THEN py_args
    ELSE Returned(<<","," ">> \o Join(py_args.value, <<","," ">>))

SignatureArgs(args) ==
    IF args = <<>> THEN Returned(<<>>)
    ELSE SignatureArgsOf(PyArgs(SplitOn(args, <<","," ">>)))

\* Lines 350-359: the stub, for the split s with a declaration, the argument
\* list and the docstring t.
Stub(s, args, t) ==
    IF args.outcome /= "return" THEN args
    ELSE Returned(
        (IF Contains(s.modifiers, <<"s","t","a","t","i","c">>)
         THEN <<" "," "," "," ","@","c","l","a","s","s","m","e","t","h","o","d","\n"," "," "," "," ","d","e","f"," ">> ELSE <<" "," "," "," ","d","e","f"," ">>)
        \o (IF s.ret_type /= <<>> THEN s.func_name ELSE <<"_","_","i","n","i","t","_","_">>)
        \o (IF Contains(s.modifiers, <<"s","t","a","t","i","c">>)
            THEN <<"(","c","l","s">> ELSE <<"(","s","e","l","f">>)
        \o args.value \o <<")"," ","-",">"," ">>
        \o (IF s.ret_type /= <<>> THEN PythonType(s.ret_type[1]) ELSE <<"N","o","n","e">>)
        \o <<":","\n">> \o t)

\* Lines 330-361, for the split s and the rendered text doc.
DocstringOf(s, doc) ==
    IF doc.outcome /= "return" THEN doc
    ELSE IF ~s.found THEN Returned(format_docstring(doc.value))
    ELSE Stub(s, SignatureArgs(s.args), format_docstring(doc.value))

ProcessSplit(s) == DocstringOf(s, process_doc(s.before))

\* Lines 322-361.
process(text) == ProcessSplit(FindFunc(StripDiffPlus(text)))

(***************************************************************************)
(* main: the text on standard input is converted in the mode the command   *)
(* line names.                                                             *)
(***************************************************************************)

\* The number of lines of the text on standard input.
MaxInput == 3

\* The lines of the input: the end delimiter of a doc comment, a line with
\* the diff plus sign, a parameter and a return tag, a text with a double quote
\* and a backslash, and two declarations, the second with a generic type of
\* two arguments.
MainLines ==
    { <<"+"," ","*"," ","t">>,
      <<" ","*"," ","@","p","a","r","a","m"," ","x"," ","a">>,
      <<" ","*"," ","@","r","e","t","u","r","n"," ","r">>,
      <<" ","*"," ","a","\"","b","\\","c">>,
      <<" ","*","/">>,
      <<"p","u","b","l","i","c"," ","i","n","t"," ","f","(","i","n","t"," ","a",")">>,
      <<"s","t","a","t","i","c"," ","F","o","o"," ","f","(","M","a","p","<","S","t","r","i","n","g",","," ","F","o","o",">"," ","m",")">> }

\* The texts standard input can hold, as lists of lines.
StdinTexts == UNION {[1..n -> MainLines] : n \in 0..MaxInput}

\* sys.argv[1:]: no argument, each mode main knows, and one it does not.
Argvs ==
    { <<>>,
      <<<<"s","e","r","v","e","r">>>>,
      <<<<"y","a","m","l">>>>,
      <<<<"r","a","w">>>>,
      <<<<"c","s","t","r","i","n","g">>>>,
      <<<<"c","o","m","m","e","n","t">>>>,
      <<<<"b","o","g","u","s">>>> }

\* Lines 446-451: the keys of the dict modes.
ModeNames ==
    { <<"y","a","m","l">>, <<"r","a","w">>, <<"c","s","t","r","i","n","g">>, <<"c","o","m","m","e","n","t">> }

\* Line 452: modes[name](text), for a name that is a key.
RunMode(name, text) ==
    IF name = <<"y","a","m","l">> THEN process_yamlgen(text)
    ELSE IF name = <<"r","a","w">> THEN process_raw(text)
    ELSE IF name = <<"c","s","t","r","i","n","g">> THEN process_cstring(text)
    ELSE process_comment(text)

\* Line 407: what SphinxifyServer.run prints before it serves.
ServerBanner ==
    <<"S","p","h","i","n","x","i","f","y"," ","s","e","r","v","e","r"," ","l","i","s","t","e","n","i","n","g"," ","a","t"," ","h","t","t","p",":","/","/","1","2","7",".","0",".","0",".","1",":","5","6","7","8","/">>

\* The state before main runs: the text on standard input is chosen.
InitMain ==
    /\ txt \in StdinTexts
    /\ pc = "main"
    /\ in_pre = StartState.in_pre
    /\ in_block = StartState.in_block
    /\ begin_block = StartState.begin_block
    /\ current_lines = StartState.current_lines
    /\ desc_lines = StartState.desc_lines
    /\ params = StartState.params
    /\ returns = StartState.returns
    /\ deprecated = StartState.deprecated
    /\ desc = <<>>
    /\ params_dict = <<>>
    /\ declared = <<>>
    /\ result = NoResult

\* main (lines 439-454).  result.value is the list of the texts print wrote
\* to standard output, result.outcome how main ended: "return", the
\* exception that ended it, or "serving" for the server, which does not
\* return (its request handlers answer on the connection, not on standard
\* output).  The Doc that process_doc builds lives inside the call only.
main(argv) ==
    /\ pc = "main"
    /\ IF argv /= <<>> /\ argv[1] = <<"s","e","r","v","e","r">>
       THEN /\ pc' = "serving"
            /\ result' = [op |-> "main", arg |-> argv, outcome |-> "serving",
                          value |-> <<ServerBanner>>, to_append |-> <<>>]
       ELSE LET text == Join(txt, <<"\n">>)
                r == IF argv = <<>> THEN process(text)
                     ELSE IF argv[1] \in ModeNames THEN RunMode(argv[1], text)
                     ELSE Raised("KeyError")
            IN  /\ pc' = "exit"
                /\ result' = [op |-> "main", arg |-> argv, outcome |-> r.outcome,
                              value |-> IF r.outcome = "return" THEN <<r.value>>
                                        ELSE <<>>,
                              to_append |-> <<>>]
    /\ UNCHANGED <<txt, in_pre, in_block, begin_block, current_lines,
                   desc_lines, params, returns, deprecated, desc, params_dict,
                   declared>>

NextMain == \E argv \in Argvs : main(argv)

SpecMain == InitMain /\ [][NextMain]_vars

(***************************************************************************)
(* Properties of main and of the encoders.                                 *)
(***************************************************************************)

\* main has run in the mode of that name and has written one text.
Wrote(mode) ==
    /\ result.op = "main" /\ result.arg = <<mode>>
    /\ result.outcome = "return" /\ Len(result.value) = 1

\* The text on standard input, and the rendered text process_raw makes of it.
StdinText == Join(txt, <<"\n">>)
RenderedText == process_raw(StdinText).value

\* The lines of the rendered text: none for the empty text.
RenderedLines == IF RenderedText = <<>> THEN <<>> ELSE SplitNL(RenderedText)

\* The lines with four spaces in front of every one, and with four spaces
\* in front of those that hold a character other than whitespace.
AllIndented(lines) ==
    Join([k \in 1..Len(lines) |-> Spaces(4) \o lines[k]], <<"\n">>)
NonBlankIndented(lines) ==
    Join([k \in 1..Len(lines) |->
             IF Strip(lines[k]) = <<>> THEN lines[k] ELSE Spaces(4) \o lines[k]],
         <<"\n">>)

\* C15 as stated: the output of the YAML encoder is the introducer line
\* followed by the lines of the rendered text, every one of them, the blank
\* ones too, with four spaces in front.
C15_YamlEveryLineIndented ==
    Wrote(<<"y","a","m","l">>) =>
        result.value[1] = <<" "," ","d","o","c",":"," ","|","\n">> \o AllIndented(RenderedLines)

\* C15 as amended: the output of the YAML encoder is the introducer line
\* followed by the lines of the rendered text, each line that holds a
\* character other than whitespace with four spaces in front, and each line
\* that holds none (the blank lines between the description and the field
\* block) as it is.
C15_YamlNonBlankLinesIndented ==
    Wrote(<<"y","a","m","l">>) =>
        result.value[1] = <<" "," ","d","o","c",":"," ","|","\n">> \o NonBlankIndented(RenderedLines)

\* C15 witness: the YAML encoder has written a text with a description, a
\* blank line and a parameter field.
C15_Witness ==
    /\ Wrote(<<"y","a","m","l">>)
    /\ StartsWith(result.value[1],
                  <<" "," ","d","o","c",":"," ","|","\n"," "," "," "," ","t","\n","\n"," "," "," "," ",":","p","a","r","a","m"," ">>)

\* The mode names the statement on main calls recognized.
RecognizedModes == ModeNames \cup { <<"s","e","r","v","e","r">> }

\* The converted text main is to write for the arguments: the text of the
\* named encoder, the text of process when there is no mode argument, and,
\* for the server, the conversion of standard input by any encoder.
EncodedTexts ==
    { RunMode(name, StdinText).value : name \in ModeNames }
ConvertedTexts(argv) ==
    IF argv = <<>>
    THEN {process(StdinText).value}
    ELSE IF argv[1] \in ModeNames
    THEN {RunMode(argv[1], StdinText).value}
    ELSE EncodedTexts

\* C16 as stated: once main has run, with a mode argument that is not
\* server, yaml, raw, cstring or comment it has ended in an error and has
\* written nothing; with one of these or with no argument it has returned
\* and has written exactly one text, the converted text of standard input.
C16_MainWritesOneTextOrFails ==
    result.op = "main" =>
        IF result.arg /= <<>> /\ result.arg[1] \notin RecognizedModes
        THEN /\ result.outcome \notin {"return", "serving"}
             /\ result.value = <<>>
        ELSE /\ result.outcome = "return"
             /\ Len(result.value) = 1
             /\ result.value[1] \in ConvertedTexts(result.arg)

\* C16 witness: main has run with a mode name it does not know and has ended
\* in KeyError with nothing written.
C16_Witness ==
    /\ result.op = "main"
    /\ result.arg = << <<"b","o","g","u","s">> >>
    /\ result.outcome = "KeyError"
    /\ result.value = <<>>

\* Reading a text as a sequence of adjacent double-quoted string literals:
\* between literals only whitespace may stand; a double quote opens a literal
\* and the next one that is not escaped closes it; inside, a backslash with
\* n is a newline, with a backslash a backslash and with a double quote a
\* double quote; a line end inside a literal, any other escape and an end of
\* the text inside a literal are malformed.  The reading starts at s[i], in
\* a literal or not, with the characters read so far.
Malformed == [ok |-> FALSE, text |-> <<>>]
RECURSIVE ReadLiteralsFrom(_, _, _, _)
ReadLiteralsFrom(s, i, inside, read) ==
    IF i > Len(s)
    THEN IF inside THEN Malformed ELSE [ok |-> TRUE, text |-> read]
    ELSE IF ~inside
    THEN IF s[i] \in {" ", "\n", "\t"} THEN ReadLiteralsFrom(s, i + 1, FALSE, read)
         ELSE IF s[i] = "\"" THEN ReadLiteralsFrom(s, i + 1, TRUE, read)
         ELSE Malformed
    ELSE IF s[i] = "\"" THEN ReadLiteralsFrom(s, i + 1, FALSE, read)
    ELSE IF s[i] = "\n" THEN Malformed
    ELSE IF s[i] /= "\\" THEN ReadLiteralsFrom(s, i + 1, TRUE, Append(read, s[i]))
    ELSE IF i = Len(s) THEN Malformed
    ELSE IF s[i + 1] = "n" THEN ReadLiteralsFrom(s, i + 2, TRUE, Append(read, "\n"))
    ELSE IF s[i + 1] \in {"\\", "\""} THEN ReadLiteralsFrom(s, i + 2, TRUE, Append(read, s[i + 1]))
    ELSE Malformed
ReadLiterals(s) == ReadLiteralsFrom(s, 1, FALSE, <<>>)

\* C19 as stated: the output of the quoted-literal encoder, read as a
\* sequence of adjacent double-quoted string literals, is well formed and
\* yields exactly the rendered text, whatever characters the rendered text
\* holds, a double quote included.
C19_CStringReadsBack ==
    Wrote(<<"c","s","t","r","i","n","g">>) =>
        ReadLiterals(result.value[1]) = [ok |-> TRUE, text |-> RenderedText]

\* C19 witness: the quoted-literal encoder has written a rendered text that
\* holds a backslash and more than one line.
C19_Witness ==
    /\ Wrote(<<"c","s","t","r","i","n","g">>)
    /\ Contains(RenderedText, <<"\\">>)
    /\ Contains(RenderedText, <<"\n">>)

====
